---- MODULE Spec2Model ----
(***************************************************************************)
(* Model of the generation orchestration layer of hf_backend/main.py:      *)
(* provider initialisation, the fallback orchestrator generate_with_llm    *)
(* with its provider adapter try_provider, the script validator and the    *)
(* validation-retry loop of generate_script, the other request handlers,   *)
(* and the job tracker (create_job_id, track_job, active_jobs,             *)
(* job_history).                                                           *)
(*                                                                         *)
(* The service runs on one asyncio event loop: the code of a request runs  *)
(* without interruption until it awaits a network call of the OpenAI       *)
(* client.  The variable running names the request that holds the event    *)
(* loop (0 when every request is suspended or finished).                   *)
(***************************************************************************)
EXTENDS Integers, Sequences, FiniteSets, TLC

\* ------------------------------------------------------------------------
\* Bounds of the model
\* ------------------------------------------------------------------------
MaxRequests == 2
MaxTime == 1

\* ------------------------------------------------------------------------
\* Program constants
\* ------------------------------------------------------------------------
JOB_HISTORY_MAXLEN == 100
max_attempts == 2

None == "None"

\* ------------------------------------------------------------------------
\* Generic sequence helpers
\* ------------------------------------------------------------------------
RECURSIVE SumSeq(_)
SumSeq(s) == IF s = <<>> THEN 0 ELSE Head(s) + SumSeq(Tail(s))

Last(s) == s[Len(s)]

\* ------------------------------------------------------------------------
\* Text: a Python str is a sequence of one-character strings
\* ------------------------------------------------------------------------
\* str.lower() on the alphabet the model uses
LowerChar(c) == CASE c = "A" -> "a" [] c = "B" -> "b" [] c = "C" -> "c" [] OTHER -> c

\* variant: the comparison keeps the case of the letters
Lower_KeepsCase(text) == text

Lower(text) == [i \in 1..Len(text) |-> LowerChar(text[i])]

\* str.split(): split on runs of whitespace, no empty words
RECURSIVE SplitAcc(_, _, _)
SplitAcc(text, cur, acc) ==
    IF text = <<>>
    THEN IF cur = <<>> THEN acc ELSE Append(acc, cur)
    ELSE IF Head(text) = " "
         THEN SplitAcc(Tail(text), <<>>, IF cur = <<>> THEN acc ELSE Append(acc, cur))
         ELSE SplitAcc(Tail(text), Append(cur, Head(text)), acc)

Split(text) == SplitAcc(text, <<>>, <<>>)

\* sep.join(parts)
RECURSIVE Join(_, _)
Join(sep, parts) ==
    IF parts = <<>> THEN <<>>
    ELSE IF Len(parts) = 1 THEN Head(parts)
    ELSE Head(parts) \o sep \o Join(sep, Tail(parts))

\* needle in hay (substring test; the empty string is in every string)
Contains(needle, hay) ==
    \E i \in 0..(Len(hay) - Len(needle)) : SubSeq(hay, i + 1, i + Len(needle)) = needle

\* ------------------------------------------------------------------------
\* JSON values of a parsed response: a key of the object is absent, null,
\* or a list
\* ------------------------------------------------------------------------
Absent == [t |-> "absent", v |-> <<>>]
Null == [t |-> "null", v |-> <<>>]
List(s) == [t |-> "list", v |-> s]

\* bool(d.get(key)) for a key holding a list or null
Truthy(jv) == jv.t = "list" /\ jv.v # <<>>

\* int((part / whole) * 100) in validate_script, in double arithmetic: the
\* floor of the exact percentage, except where the rounded product falls
\* just below a whole number (the pairs below, for part < 80, whole < 40)
PctRoundsBelow ==
    { <<23, 5>>, <<41, 5>>, <<46, 5>>, <<51, 5>>, <<23, 10>>, <<41, 10>>,
      <<46, 10>>, <<51, 10>>, <<69, 15>>, <<23, 20>>, <<41, 20>>, <<46, 20>>,
      <<51, 20>>, <<29, 25>>, <<57, 25>>, <<58, 25>>, <<69, 30>> }

Pct(part, whole) ==
    ((part * 100) \div whole) - (IF <<part, whole>> \in PctRoundsBelow THEN 1 ELSE 0)

\* ------------------------------------------------------------------------
\* validate_script (main.py 1040-1108)
\* A grade band is "7"-like (kind "int"), "6-8"-like (kind "range", n the
\* first number), empty (kind "empty") or not a number (kind "bad").
\* ------------------------------------------------------------------------
GradeRaises(grade_band) == grade_band.kind = "bad"

GradeOf(grade_band) == IF grade_band.kind = "empty" THEN 7 ELSE grade_band.n

SectionWords(section) == Split(section.text)

TotalWords(sections) == SumSeq([i \in 1..Len(sections) |-> Len(SectionWords(sections[i]))])

TotalLetters(sections) ==
    SumSeq([i \in 1..Len(sections) |->
              SumSeq([j \in 1..Len(SectionWords(sections[i])) |->
                        Len(SectionWords(sections[i])[j])])])

ScriptText(sections) ==
    Lower(Join(<<" ">>, [i \in 1..Len(sections) |-> sections[i].text]))

RECURSIVE Uncovered(_, _)
Uncovered(concept_names, script_text) ==
    IF concept_names = <<>> THEN <<>>
    ELSE (IF ~Contains(Lower(Head(concept_names)), script_text)
          THEN <<Head(concept_names)>> ELSE <<>>)
         \o Uncovered(Tail(concept_names), script_text)

WordCountErrors(total_words, min_words, max_words) ==
    IF total_words < min_words
    THEN <<[kind |-> "too_short", total |-> total_words, min |-> min_words,
            max |-> max_words, by |-> min_words - total_words,
            pct |-> Pct(min_words - total_words, min_words), names |-> <<>>]>>
    ELSE IF total_words > max_words
    THEN <<[kind |-> "too_long", total |-> total_words, min |-> min_words,
            max |-> max_words, by |-> total_words - max_words,
            pct |-> Pct(total_words - max_words, max_words), names |-> <<>>]>>
    ELSE <<>>

\* a violation that carries no numbers
Violation(k) == [kind |-> k, total |-> 0, min |-> 0, max |-> 0, by |-> 0,
                 pct |-> 0, names |-> <<>>]

CoverageErrors(sections, concept_names) ==
    LET uncovered_concepts == Uncovered(concept_names, ScriptText(sections))
    IN  IF uncovered_concepts # <<>>
        THEN <<[Violation("not_covered") EXCEPT !.names = uncovered_concepts]>>
        ELSE <<>>

StructureErrors(sections) ==
    IF Len(sections) < 3
    THEN <<[Violation("few_sections") EXCEPT !.total = Len(sections)]>>
    ELSE <<>>

DialogueErrors(sections) ==
    IF \E i \in 1..Len(sections) : sections[i].speaker # ""
    THEN <<>>
    ELSE <<Violation("no_speakers")>>

\* avg_word_length > limit, with avg = letters / max(total_words, 1)
AvgWordLengthAbove(sections, limit) ==
    LET total_words == TotalWords(sections)
    IN  TotalLetters(sections) > limit * (IF total_words > 1 THEN total_words ELSE 1)

ReadingLevelErrors(sections, grade) ==
    IF grade <= 5 /\ AvgWordLengthAbove(sections, 6)
    THEN <<[Violation("too_complex") EXCEPT !.total = grade, !.max = 6]>>
    ELSE IF grade <= 8 /\ AvgWordLengthAbove(sections, 7)
    THEN <<[Violation("too_complex") EXCEPT !.total = grade, !.max = 7]>>
    ELSE <<>>

\* the word-count branch divides by max_words
WordCountRaises(total_words, min_words, max_words) ==
    ~(total_words < min_words) /\ total_words > max_words /\ max_words = 0

\* result of validate_script: raised, or (is_valid, errors)
validate_script(script_data, min_words, max_words, concept_names, grade_band) ==
    IF ~Truthy(script_data.sections)
    THEN [raised |-> FALSE, is_valid |-> FALSE, errors |-> <<Violation("missing_sections")>>]
    ELSE
    LET sections == script_data.sections.v
        total_words == TotalWords(sections)
        errors == WordCountErrors(total_words, min_words, max_words)
                  \o CoverageErrors(sections, concept_names)
                  \o StructureErrors(sections)
                  \o DialogueErrors(sections)
                  \o (IF GradeRaises(grade_band) THEN <<>>
                      ELSE ReadingLevelErrors(sections, GradeOf(grade_band)))
    IN  IF Len(sections) = 0
        THEN [raised |-> FALSE, is_valid |-> FALSE, errors |-> <<Violation("no_sections")>>]
        ELSE IF WordCountRaises(total_words, min_words, max_words) \/ GradeRaises(grade_band)
        THEN [raised |-> TRUE, is_valid |-> FALSE, errors |-> <<>>]
        ELSE [raised |-> FALSE, is_valid |-> (Len(errors) = 0), errors |-> errors]

\* ------------------------------------------------------------------------
\* Provider configuration (main.py 98-139, 205-210)
\* ------------------------------------------------------------------------
\* initialize_providers: the globals it leaves behind; when it raises, the
\* globals keep their initial None (lifespan logs the error and carries on)
initialize_providers(LLM_PROVIDER, openai_available, gemini_available) ==
    CASE LLM_PROVIDER = "auto" ->
           IF openai_available /\ gemini_available
           THEN [current |-> "openai", fallback |-> "gemini", raised |-> FALSE]
           ELSE IF openai_available
           THEN [current |-> "openai", fallback |-> None, raised |-> FALSE]
           ELSE IF gemini_available
           THEN [current |-> "gemini", fallback |-> None, raised |-> FALSE]
           ELSE [current |-> None, fallback |-> None, raised |-> TRUE]
      [] LLM_PROVIDER = "openai" ->
           IF ~openai_available
           THEN [current |-> None, fallback |-> None, raised |-> TRUE]
           ELSE [current |-> "openai",
                 fallback |-> IF gemini_available THEN "gemini" ELSE None,
                 raised |-> FALSE]
      [] LLM_PROVIDER = "gemini" ->
           IF ~gemini_available
           THEN [current |-> None, fallback |-> None, raised |-> TRUE]
           ELSE [current |-> "gemini",
                 fallback |-> IF openai_available THEN "openai" ELSE None,
                 raised |-> FALSE]
      [] OTHER -> [current |-> None, fallback |-> None, raised |-> FALSE]

\* parse_openai_model_list: OPENAI_MODEL is given as its comma-separated
\* items, already stripped ("" is a blank item)
parse_openai_model_list(model_items) ==
    LET models == SelectSeq(model_items, LAMBDA m : m # "")
    IN  IF models # <<>> THEN models ELSE <<"gpt-4o">>

\* the model get_gemini_model configures (main.py 159)
GEMINI_MODEL == "gemini-2.0-flash-001"

\* is_gpt51 of try_provider: "gpt-5.1" or "gpt-5" occurs in the model name
is_gpt51(model_name) == model_name \in {"gpt-5", "gpt-5.1"}

\* ------------------------------------------------------------------------
\* Job tracker (main.py 70-96)
\* ------------------------------------------------------------------------
\* md5(json.dumps(data, sort_keys=True))[:8]: equal data give equal hashes;
\* distinct data of the model are taken to give distinct hashes
DataHash(data) == data

create_job_id(task_type, data, timestamp) ==
    [task |-> task_type, ts |-> timestamp, hash |-> DataHash(data)]

NoJob == [task |-> "None", ts |-> 0, hash |-> "None"]

\* dict assignment and del
DictPut(d, k, v) == [x \in (DOMAIN d) \cup {k} |-> IF x = k THEN v ELSE d[x]]

DictDel(d, k) == [x \in (DOMAIN d) \ {k} |-> d[x]]

\* variant: a deque that never evicts
DequeAppend_NoEviction(dq, x, maxlen) == Append(dq, x)

\* deque(maxlen=...).append
DequeAppend(dq, x, maxlen) ==
    IF Len(dq) >= maxlen THEN Append(Tail(dq), x) ELSE Append(dq, x)

job_info(job_id, status, timestamp, metadata) ==
    [id |-> job_id, status |-> status, timestamp |-> timestamp, metadata |-> metadata]

\* track_job: the tables after the call
track_job_active(active, job_id, status, timestamp, metadata) ==
    IF status \in {"queued", "processing"}
    THEN DictPut(active, job_id, job_info(job_id, status, timestamp, metadata))
    ELSE IF status \in {"completed", "failed"}
    THEN DictDel(active, job_id)
    ELSE active

\* variant: the job is removed from active_jobs and the append to
\* job_history is left for later
track_job_history_AppendDeferred(history, job_id, status, timestamp, metadata) == history

track_job_history(history, job_id, status, timestamp, metadata) ==
    IF status \in {"completed", "failed"}
    THEN DequeAppend(history, job_info(job_id, status, timestamp, metadata),
                     JOB_HISTORY_MAXLEN)
    ELSE history

\* logger.info(f"Job {job_id}: {status}"): the line track_job writes to the
\* service log file on every call
track_job_log(log, job_id, status) == Append(log, [id |-> job_id, status |-> status])

\* ------------------------------------------------------------------------
\* Texts a provider can answer with, and json.loads of them
\* ------------------------------------------------------------------------
Section(text, speaker) == [text |-> text, speaker |-> speaker]

NoKeys == [sections |-> Absent, concepts |-> Absent, mcqs |-> Absent]

\* three sections of two words each, naming "ab", with speakers
GoodSections ==
    << Section(<<"A", "b", " ", "a">>, "StudentA"),
       Section(<<"a", " ", "a", "b">>, "StudentB"),
       Section(<<"a", "b", " ", "a">>, "StudentA") >>

\* one word per section, no speaker, and the concept is not named
ShortSections ==
    << Section(<<"a">>, ""), Section(<<"a">>, "") >>

\* a text of n words
WordsText(n) == [i \in 1..(2 * n - 1) |-> IF i % 2 = 1 THEN "a" ELSE " "]

\* one section of 28 words
LongSections == << Section(WordsText(28), "StudentA") >>

\* the JSON object a text denotes (NotJson denotes none)
JsonObject(text) ==
    CASE text = "script_good"       -> [NoKeys EXCEPT !.sections = List(GoodSections)]
      [] text = "script_short"      -> [NoKeys EXCEPT !.sections = List(ShortSections)]
      [] text = "script_long"       -> [NoKeys EXCEPT !.sections = List(LongSections)]
      [] text = "script_empty_list" -> [NoKeys EXCEPT !.sections = List(<<>>)]
      [] text = "script_null"       -> [NoKeys EXCEPT !.sections = Null]
      [] text = "concepts_some"     -> [NoKeys EXCEPT !.concepts = List(<<"c1">>)]
      [] text = "mcqs_some"         -> [NoKeys EXCEPT !.mcqs = List(<<"q1">>)]
      [] OTHER                      -> NoKeys

\* response.choices[0].message.content may be None
NoneText == "NoneText"

\* json.dumps(rsp.model_dump()): a JSON object with none of the keys
DumpText == "response_dump"

\* json.loads raises on text that is not JSON and on None
JsonLoadsRaises(text) == text \in {"not_json", NoneText}

\* ------------------------------------------------------------------------
\* Requests
\* ------------------------------------------------------------------------
Tasks == {"concept_extraction", "script_generation", "mcq_generation",
          "regenerate", "chapter_analysis"}

\* request.concepts -> concept_names (main.py 1127)
ConceptName(c) == IF c.has_name THEN c.name ELSE IF c.has_id THEN c.id ELSE <<"U">>

concept_names_of(concepts) == [i \in 1..Len(concepts) |-> ConceptName(concepts[i])]

\* min_words, max_words of generate_script (main.py 1131-1144): int(n * 0.85)
\* and int(n * 1.15) in double arithmetic, for n <= 400; n * 1.15 falls just
\* below the whole number for the targets listed
Scale85(n) == (n * 85) \div 100

Scale115RoundsBelow == {100, 180, 200, 220, 340, 360, 380, 400}

Scale115(n) == ((n * 115) \div 100) - (IF n \in Scale115RoundsBelow THEN 1 ELSE 0)

word_bounds(inp) ==
    IF inp.target_words # 0
    THEN IF Len(inp.word_count_range) = 2
         THEN [min |-> inp.word_count_range[1], max |-> inp.word_count_range[2]]
         ELSE [min |-> Scale85(inp.target_words), max |-> Scale115(inp.target_words)]
    ELSE [min |-> Scale85(inp.duration_minutes * 150),
          max |-> Scale115(inp.duration_minutes * 150)]

\* the provider override a handler passes on (main.py 1011-1012, 1122-1123)
provider_override_of(inp) ==
    IF inp.llm_provider \in {"openai", "gemini"} THEN inp.llm_provider ELSE None

\* the data create_job_id hashes, per handler
job_data(inp) == inp.hashed

\* temperature the handler passes to generate_with_llm
temperature_of(inp) ==
    CASE inp.task = "script_generation" -> 4
      [] inp.task = "regenerate" -> inp.temperature
      [] OTHER -> 3

\* A prompt is the formatted template of the request (base) followed by the
\* lines appended to it (suffix)
base_prompt(inp) == [base |-> <<inp.task, inp.hashed>>, suffix |-> <<>>]

\* feedback appended on a retry (main.py 1184-1187): a header line, the
\* violations joined by newlines, a closing line
FeedbackHeader == Violation("PREVIOUS ATTEMPT FAILED WITH THESE ISSUES:")

FeedbackFooter == Violation("PLEASE FIX THESE ISSUES IN THIS ATTEMPT.")

feedback(validation_errors) ==
    <<FeedbackHeader>> \o validation_errors \o <<FeedbackFooter>>

\* variant: the retry prompt names no violation
attempt_prompt_NoViolations(prompt, attempt, validation_errors) ==
    IF attempt > 1 /\ validation_errors # <<>>
    THEN [prompt EXCEPT !.suffix = @ \o <<FeedbackHeader, FeedbackFooter>>]
    ELSE prompt

attempt_prompt(prompt, attempt, validation_errors) ==
    IF attempt > 1 /\ validation_errors # <<>>
    THEN [prompt EXCEPT !.suffix = @ \o feedback(validation_errors)]
    ELSE prompt

\* ------------------------------------------------------------------------
\* What the environment can do: request payloads clients send and answers
\* providers give
\* ------------------------------------------------------------------------
Concept(name) == [has_name |-> TRUE, name |-> name, has_id |-> TRUE, id |-> <<"c">>]

Input(task, hashed, llm_provider) ==
    [task |-> task, hashed |-> hashed, llm_provider |-> llm_provider,
     known_prompt |-> TRUE, temperature |-> 0,
     target_words |-> 5, word_count_range |-> <<4, 8>>, duration_minutes |-> 1,
     concepts |-> <<Concept(<<"A", "b">>)>>, grade |-> [kind |-> "int", n |-> 7]]

NoInput == Input("None", "None", "")

\* every kind of request, without and with a provider override
AllInputs ==
    {Input(t, "d1", p) : t \in Tasks \ {"chapter_analysis"}, p \in {"", "openai", "gemini"}}
    \cup {Input("chapter_analysis", "d1", "")}
    \cup {[Input("regenerate", "unknown_type", "") EXCEPT !.known_prompt = FALSE]}
    \cup {[Input("script_generation", "d2", "") EXCEPT !.word_count_range = <<>>],
          [Input("script_generation", "d3", "") EXCEPT !.target_words = 0],
          [Input("script_generation", "d4", "") EXCEPT !.grade = [kind |-> "bad", n |-> 0]]}

\* the answers a provider gives to the prompt of a task: JSON with or without
\* the keys the handler reads, or text that is not JSON
Texts ==
    [t \in Tasks |->
       CASE t = "script_generation" ->
              {"script_good", "script_short", "script_empty_list", "script_null",
               "empty_object", "not_json"}
         [] t = "concept_extraction" -> {"concepts_some", "empty_object", "not_json"}
         [] t = "mcq_generation" -> {"mcqs_some", "empty_object", "not_json"}
         [] OTHER -> {"empty_object", "not_json"}]

ErrorKinds == {"rate_limit", "auth", "timeout"}

\* "429" in str(e) or "rate limit" in str(e).lower()
\* variant: no error is recognised as a rate limit
IsRateLimit_Never(err) == FALSE

IsRateLimit(err) == err = "rate_limit"

AllAnswers == [texts |-> Texts, errors |-> ErrorKinds, none_content |-> {TRUE, FALSE}]

\* environment variables of the process
Env(mode, openai_key, gemini_key, model_items) ==
    [LLM_PROVIDER |-> mode, OPENAI_API_KEY |-> openai_key,
     GEMINI_API_KEY |-> gemini_key, OPENAI_MODEL |-> model_items]

AllEnvs ==
    {Env(m, ok, gk, ms) : m \in {"auto", "openai", "gemini"},
                          ok \in BOOLEAN, gk \in BOOLEAN,
                          ms \in {<<"">>, <<"gpt-5", "", "gpt-4o">>}}

\* ------------------------------------------------------------------------
\* Response Cache (spec.md 4.4): one record per key, holding the payload, its
\* creation time and the prompt version it was produced under
\* ------------------------------------------------------------------------
\* prompt_loader.py 106
PROMPT_VERSION == "v2.1"

\* the answer of get when no entry can be served
Miss == "absent"

CacheEntry(payload, created_at, version) ==
    [created_at |-> created_at, version |-> version, payload |-> payload]

\* variant: an entry never expires
Expired_Never(entry, time, ttl) == FALSE

\* an entry is served while its age is at most the TTL
Expired(entry, time, ttl) == time - entry.created_at > ttl

\* variant: the version an entry was stored under is not compared
VersionMatches_Any(entry, version) == TRUE

VersionMatches(entry, version) == entry.version = version

\* get(key): the payload of an entry that is present, not expired and of the
\* version requested
CacheGet(entries, key, version, time, ttl) ==
    IF /\ key \in DOMAIN entries
       /\ ~Expired(entries[key], time, ttl)
       /\ VersionMatches(entries[key], version)
    THEN entries[key].payload
    ELSE Miss

\* the side effect of get(key): an expired entry is deleted
CacheGetEntries(entries, key, time, ttl) ==
    IF key \in DOMAIN entries /\ Expired(entries[key], time, ttl)
    THEN [k \in (DOMAIN entries) \ {key} |-> entries[k]]
    ELSE entries

\* variant: put leaves an existing entry as it is
CachePut_KeepsExisting(entries, key, payload, version, time) ==
    IF key \in DOMAIN entries THEN entries
    ELSE [k \in (DOMAIN entries) \cup {key} |->
            IF k = key THEN CacheEntry(payload, time, version) ELSE entries[k]]

\* put(key, payload, version): the entry is written with the current time,
\* over any entry the key had
CachePut(entries, key, payload, version, time) ==
    [k \in (DOMAIN entries) \cup {key} |->
       IF k = key THEN CacheEntry(payload, time, version) ELSE entries[k]]

\* purge(version?): every entry, or the entries of one version, are deleted
CachePurge(entries, version) ==
    [k \in {x \in DOMAIN entries : version # None /\ entries[x].version # version} |->
       entries[k]]

\* an operation on the cache and what it returned
\* (removed: whether the operation deleted or replaced an entry of its key)
CacheOp(op, key, version, payload, result) ==
    [op |-> op, key |-> key, version |-> version, payload |-> payload, result |-> result,
     removed |-> FALSE]

NoCacheOp == CacheOp("none", "None", "None", "None", "None")

\* a cache without entries
NewCache(ttl) == [ttl |-> ttl, entries |-> <<>>, last |-> NoCacheOp, before |-> NoCacheOp]

\* ------------------------------------------------------------------------
\* State
\* ------------------------------------------------------------------------
VARIABLES
    env,                \* os.environ (read at start-up and by the client getters)
    inputs,             \* the request payloads clients send
    answers,            \* the answers providers give
    CURRENT_PROVIDER,   \* main.py 103
    FALLBACK_PROVIDER,  \* main.py 104
    now,                \* int(time.time())
    active_jobs,        \* main.py 71
    job_history,        \* main.py 72
    job_log,            \* the "Job <id>: <status>" lines of the service log
    req,                \* the requests: handler position and local variables
    running,            \* the request that holds the event loop, 0 for none
    cache               \* the Response Cache: its TTL, its entries, its last two operations

vars == <<env, inputs, answers, CURRENT_PROVIDER, FALLBACK_PROVIDER, now,
          active_jobs, job_history, job_log, req, running, cache>>

Requests == 1..MaxRequests

NoPrompt == [base |-> <<"None", "None">>, suffix |-> <<>>]

NoGen == [raised |-> FALSE, text |-> "None", detail |-> "None", errors |-> <<>>]

NoResponse == [status |-> "none", script |-> "None", passed |-> "none",
               errors |-> <<>>, attempts |-> 0, warning |-> FALSE]

NewRequest(pc) ==
    [pc |-> pc, inp |-> NoInput, job_id |-> NoJob, attempt |-> 0,
     prompt |-> NoPrompt, validation_errors |-> <<>>,
     use_provider |-> None, role |-> "none", models |-> <<>>, idx |-> 0,
     errors |-> <<>>, e |-> "None", chat_err |-> "None",
     \* observations: the provider calls (calls) and the try_provider
     \* invocations (tried) of the current run of generate_with_llm, the
     \* prompt of every run of the request (gens), the violations
     \* validate_script returned on every attempt (validations)
     calls |-> <<>>, tried |-> <<>>, gens |-> <<>>, validations |-> <<>>,
     gen |-> NoGen, response |-> NoResponse]

\* one outbound provider call, as the provider sees it
Call(provider, model, shape, prompt, temperature, result, answer) ==
    [provider |-> provider, model |-> model, shape |-> shape, prompt |-> prompt,
     temperature |-> temperature, result |-> result, answer |-> answer]

EmptyDict == [x \in {} |-> NoJob]

\* the state after start-up (lifespan): nrequests clients are about to send
InitWith(envs, payloads, replies, nrequests, history) ==
    /\ env \in envs
    /\ inputs = payloads
    /\ answers = replies
    /\ LET p == initialize_providers(env.LLM_PROVIDER, env.OPENAI_API_KEY, env.GEMINI_API_KEY)
       IN  /\ CURRENT_PROVIDER = p.current
           /\ FALLBACK_PROVIDER = p.fallback
    /\ now = 0
    /\ active_jobs = EmptyDict
    /\ job_history = history
    /\ job_log = <<>>
    /\ req = [r \in Requests |-> NewRequest(IF r <= nrequests THEN "idle" ELSE "off")]
    /\ running = 0
    /\ cache = NewCache(1)

Init == InitWith(AllEnvs, AllInputs, AllAnswers, 1, <<>>)

\* ------------------------------------------------------------------------
\* generate_with_llm (main.py 212-382)
\* ------------------------------------------------------------------------
\* f"OpenAI ({model_name}): {str(e)[:150]}" and f"Gemini: {str(e)[:150]}"
ErrorMsg(provider, model, err) == [provider |-> provider, model |-> model, err |-> err]

\* generate_with_llm returns text
\* variant: a successful OpenAI model does not end the loop over the models
Returned_GoesOn(rq, text) ==
    [rq EXCEPT !.pc = IF rq.pc \in {"chat_wait", "rsp_wait"} THEN "oa_loop" ELSE "gen_done",
               !.idx = IF rq.pc \in {"chat_wait", "rsp_wait"} THEN @ + 1 ELSE @,
               !.gen = [raised |-> FALSE, text |-> text, detail |-> "None", errors |-> <<>>]]

Returned(rq, text) ==
    [rq EXCEPT !.pc = "gen_done",
               !.gen = [raised |-> FALSE, text |-> text, detail |-> "None", errors |-> <<>>]]

\* generate_with_llm raises
Raised(rq, detail, errors) ==
    [rq EXCEPT !.pc = "gen_done",
               !.gen = [raised |-> TRUE, text |-> "None", detail |-> detail, errors |-> errors]]

\* the result of the last call of the request becomes known
\* variant: the loop goes on without waiting for the answer of the call
Answered_NotAwaited(rq, result, answer) == rq

Answered(rq, result, answer) ==
    [rq EXCEPT !.calls[Len(rq.calls)].result = result,
               !.calls[Len(rq.calls)].answer = answer]

\* try_provider is entered for a candidate
Tried(rq, provider, model) == [rq EXCEPT !.tried = Append(@, <<provider, model>>)]

\* variant: after a failure the loop stays at the same model
OpenAIModelFailed_SameModel(rq, err) == [rq EXCEPT !.pc = "oa_loop"]

\* a model of the OpenAI list failed with err: the primary loop records it
\* (main.py 324-327), the fallback loop only logs it (main.py 364-365)
OpenAIModelFailed(rq, err) ==
    [rq EXCEPT !.pc = "oa_loop",
               !.idx = @ + 1,
               !.errors = IF rq.role = "primary"
                          THEN Append(@, ErrorMsg("openai", rq.models[rq.idx], err))
                          ELSE @]

\* the handler calls generate_with_llm: provider choice (main.py 226, 316, 346)
GenStart(r) ==
    /\ running = r
    /\ req[r].pc = "gen"
    /\ LET rq == req[r]
           override == provider_override_of(rq.inp)
           use_provider == IF override # None THEN override ELSE CURRENT_PROVIDER
           sent == IF rq.inp.task = "script_generation"
                   THEN attempt_prompt(rq.prompt, rq.attempt, rq.validation_errors)
                   ELSE rq.prompt
           started == [rq EXCEPT !.use_provider = use_provider, !.role = "primary",
                                 !.errors = <<>>, !.e = "None", !.chat_err = "None",
                                 !.calls = <<>>, !.tried = <<>>, !.gen = NoGen,
                                 !.gens = Append(@, sent)]
       IN  req' = [req EXCEPT ![r] =
                     IF use_provider = "openai"
                     THEN [started EXCEPT !.pc = "oa_loop", !.idx = 1,
                             !.models = parse_openai_model_list(env.OPENAI_MODEL)]
                     ELSE [started EXCEPT !.pc = "gemini"]]
    /\ UNCHANGED <<cache, env, inputs, answers, CURRENT_PROVIDER, FALLBACK_PROVIDER, now,
                   active_jobs, job_history, job_log, running>>

\* the model list is used up (main.py 329-344, 367-368)
OpenAIExhausted(r) ==
    /\ running = r
    /\ req[r].pc = "oa_loop"
    /\ req[r].idx > Len(req[r].models)
    /\ LET rq == req[r]
       IN  req' = [req EXCEPT ![r] =
                     IF rq.role = "primary"
                     THEN IF FALLBACK_PROVIDER = "gemini"
                          THEN [rq EXCEPT !.pc = "gemini", !.role = "fallback"]
                          ELSE Raised(rq, "All providers failed", rq.errors)
                     ELSE Raised(rq, "provider failed",
                                 <<ErrorMsg(rq.use_provider, GEMINI_MODEL, rq.e)>>)]
    /\ UNCHANGED <<cache, env, inputs, answers, CURRENT_PROVIDER, FALLBACK_PROVIDER, now,
                   active_jobs, job_history, job_log, running>>

\* get_openai_client raises for want of a key (main.py 182-192)
OpenAINoKey(r) ==
    /\ running = r
    /\ req[r].pc = "oa_loop"
    /\ req[r].idx <= Len(req[r].models)
    /\ ~env.OPENAI_API_KEY
    /\ req' = [req EXCEPT ![r] =
                 OpenAIModelFailed(Tried(req[r], "openai", req[r].models[req[r].idx]),
                                   "no_api_key")]
    /\ UNCHANGED <<cache, env, inputs, answers, CURRENT_PROVIDER, FALLBACK_PROVIDER, now,
                   active_jobs, job_history, job_log, running>>

\* await client.chat.completions.create(**kwargs): the request is suspended
OpenAIChatCall(r) ==
    /\ running = r
    /\ req[r].pc = "oa_loop"
    /\ req[r].idx <= Len(req[r].models)
    /\ env.OPENAI_API_KEY
    /\ LET rq == Tried(req[r], "openai", req[r].models[req[r].idx])
       IN  req' = [req EXCEPT ![r] =
                     [rq EXCEPT !.pc = "chat_wait",
                                !.calls = Append(@, Call("openai", rq.models[rq.idx], "chat",
                                                         Last(rq.gens), temperature_of(rq.inp),
                                                         "pending", "None"))]]
    /\ running' = 0
    /\ UNCHANGED <<cache, env, inputs, answers, CURRENT_PROVIDER, FALLBACK_PROVIDER, now,
                   active_jobs, job_history, job_log>>

\* the chat call answers; message.content is returned as it is (main.py 259)
ChatSucceeds(r) ==
    /\ running = 0
    /\ req[r].pc = "chat_wait"
    /\ \E text \in answers.texts[req[r].inp.task] \cup {NoneText} :
         /\ text = NoneText => TRUE \in answers.none_content
         /\ req' = [req EXCEPT ![r] = Returned(Answered(req[r], "ok", text), text)]
    /\ running' = r
    /\ UNCHANGED <<cache, env, inputs, answers, CURRENT_PROVIDER, FALLBACK_PROVIDER, now,
                   active_jobs, job_history, job_log>>

\* the chat call raises (main.py 260-292): a rate limit or a gpt-5 model
\* fails the model, anything else goes on to the responses endpoint
ChatFails(r) ==
    /\ running = 0
    /\ req[r].pc = "chat_wait"
    /\ \E err \in answers.errors :
         LET rq == Answered(req[r], "fail", err)
             model_name == rq.models[rq.idx]
         IN  IF IsRateLimit(err) \/ is_gpt51(model_name)
             THEN /\ req' = [req EXCEPT ![r] = OpenAIModelFailed(rq, err)]
                  /\ running' = r
             ELSE /\ req' = [req EXCEPT ![r] =
                               [rq EXCEPT !.pc = "rsp_wait", !.chat_err = err,
                                          !.calls = Append(@, Call("openai", model_name,
                                                     "responses", Last(rq.gens),
                                                     temperature_of(rq.inp), "pending",
                                                     "None"))]]
                  /\ running' = 0
    /\ UNCHANGED <<cache, env, inputs, answers, CURRENT_PROVIDER, FALLBACK_PROVIDER, now,
                   active_jobs, job_history, job_log>>

\* the responses call answers: output_text, the joined parts, or the dump of
\* the whole response (main.py 280-287)
ResponsesSucceeds(r) ==
    /\ running = 0
    /\ req[r].pc = "rsp_wait"
    /\ \E text \in answers.texts[req[r].inp.task] \cup {DumpText} :
         req' = [req EXCEPT ![r] = Returned(Answered(req[r], "ok", text), text)]
    /\ running' = r
    /\ UNCHANGED <<cache, env, inputs, answers, CURRENT_PROVIDER, FALLBACK_PROVIDER, now,
                   active_jobs, job_history, job_log>>

\* the responses call raises too: the chat error is re-raised (main.py 288-290)
ResponsesFails(r) ==
    /\ running = 0
    /\ req[r].pc = "rsp_wait"
    /\ \E err \in answers.errors :
         req' = [req EXCEPT ![r] =
                   OpenAIModelFailed(Answered(req[r], "fail", err), req[r].chat_err)]
    /\ running' = r
    /\ UNCHANGED <<cache, env, inputs, answers, CURRENT_PROVIDER, FALLBACK_PROVIDER, now,
                   active_jobs, job_history, job_log>>

\* ------------------------------------------------------------------------
\* try_provider, Gemini branch (main.py 294-311) with get_gemini_model
\* (main.py 141-178).  The Gemini client is synchronous: the whole attempt
\* runs without suspending the request.
\* ------------------------------------------------------------------------
\* the connectivity probe get_gemini_model sends before every attempt
TestPrompt == [base |-> <<"Test connection", "None">>, suffix |-> <<>>]

TestCall(result, answer) ==
    Call("gemini", GEMINI_MODEL, "test", TestPrompt, -1, result, answer)

\* variant: the Gemini call is made with the default temperature of
\* generate_with_llm (0.4) instead of the temperature it was given
GeminiCall_DefaultTemperature(rq, result, answer) ==
    Call("gemini", GEMINI_MODEL, "generate", Last(rq.gens), 4, result, answer)

GeminiCall(rq, result, answer) ==
    Call("gemini", GEMINI_MODEL, "generate", Last(rq.gens), temperature_of(rq.inp),
         result, answer)

\* try_provider is entered for Gemini and makes these calls
GeminiTried(rq, calls) ==
    [Tried(rq, "gemini", GEMINI_MODEL) EXCEPT !.calls = @ \o calls]

\* the Gemini attempt returned text (main.py 333-335, 349-351); with no
\* provider selected use_provider.upper() raises in the success log line and
\* again in the handler of that exception
GeminiReturned(rq, text) ==
    IF rq.role = "primary" /\ rq.use_provider = None
    THEN Raised(rq, "AttributeError", <<>>)
    ELSE Returned(rq, text)

\* the Gemini attempt raised err (main.py 336-344, 352-368)
GeminiFailed(rq, err) ==
    IF rq.role = "fallback"
    THEN Raised(rq, "All providers failed",
                Append(rq.errors, ErrorMsg("gemini", GEMINI_MODEL, err)))
    ELSE IF rq.use_provider = None
    THEN Raised(rq, "AttributeError", <<>>)
    ELSE IF FALLBACK_PROVIDER = "openai"
    THEN [rq EXCEPT !.pc = "oa_loop", !.role = "fallback", !.e = err, !.idx = 1,
                    !.models = parse_openai_model_list(env.OPENAI_MODEL)]
    ELSE Raised(rq, "provider failed", <<ErrorMsg(rq.use_provider, GEMINI_MODEL, err)>>)

GeminiNoKey(r) ==
    /\ running = r
    /\ req[r].pc = "gemini"
    /\ ~env.GEMINI_API_KEY
    /\ req' = [req EXCEPT ![r] = GeminiFailed(GeminiTried(req[r], <<>>), "no_api_key")]
    /\ UNCHANGED <<cache, env, inputs, answers, CURRENT_PROVIDER, FALLBACK_PROVIDER, now,
                   active_jobs, job_history, job_log, running>>

\* the probe raises or comes back empty
GeminiTestFails(r) ==
    /\ running = r
    /\ req[r].pc = "gemini"
    /\ env.GEMINI_API_KEY
    /\ \E err \in answers.errors :
         req' = [req EXCEPT ![r] =
                   GeminiFailed(GeminiTried(req[r], <<TestCall("fail", err)>>), err)]
    /\ UNCHANGED <<cache, env, inputs, answers, CURRENT_PROVIDER, FALLBACK_PROVIDER, now,
                   active_jobs, job_history, job_log, running>>

\* the probe answers, generate_content or response.text raises
GeminiCallFails(r) ==
    /\ running = r
    /\ req[r].pc = "gemini"
    /\ env.GEMINI_API_KEY
    /\ \E err \in answers.errors :
         req' = [req EXCEPT ![r] =
                   GeminiFailed(GeminiTried(req[r], <<TestCall("ok", "ok"),
                                                      GeminiCall(req[r], "fail", err)>>), err)]
    /\ UNCHANGED <<cache, env, inputs, answers, CURRENT_PROVIDER, FALLBACK_PROVIDER, now,
                   active_jobs, job_history, job_log, running>>

GeminiSucceeds(r) ==
    /\ running = r
    /\ req[r].pc = "gemini"
    /\ env.GEMINI_API_KEY
    /\ \E text \in answers.texts[req[r].inp.task] :
         req' = [req EXCEPT ![r] =
                   GeminiReturned(GeminiTried(req[r], <<TestCall("ok", "ok"),
                                                        GeminiCall(req[r], "ok", text)>>), text)]
    /\ UNCHANGED <<cache, env, inputs, answers, CURRENT_PROVIDER, FALLBACK_PROVIDER, now,
                   active_jobs, job_history, job_log, running>>

\* ------------------------------------------------------------------------
\* Request handlers (main.py 999-1038, 1110-1234, 1236-1310, 1312-1363,
\* 1365-1439)
\* ------------------------------------------------------------------------
\* the handler raises before it has a job id: analyze_chapter reads
\* request.metadata, which ChapterAnalysisRequest does not have (main.py 1372);
\* regenerate_content rejects an unknown prompt type (main.py 1319-1320)
RaisesBeforeJob(inp) ==
    \/ inp.task = "chapter_analysis"
    \/ inp.task = "regenerate" /\ ~inp.known_prompt

ErrorResponse == [NoResponse EXCEPT !.status = "error"]

\* a request arrives: job id, track_job("processing"), prompt; the requests
\* are numbered in the order of their arrival
Arrive(r) ==
    /\ running = 0
    /\ req[r].pc = "idle"
    /\ \A q \in 1..(r - 1) : req[q].pc # "idle"
    /\ \E inp \in inputs :
         IF RaisesBeforeJob(inp)
         THEN /\ req' = [req EXCEPT ![r] =
                           [req[r] EXCEPT !.pc = "done", !.inp = inp, !.response = ErrorResponse]]
              /\ UNCHANGED <<active_jobs, job_history, job_log, running>>
         ELSE LET job_id == create_job_id(inp.task, job_data(inp), now)
              IN  /\ req' = [req EXCEPT ![r] =
                               [req[r] EXCEPT !.pc = "gen", !.inp = inp, !.job_id = job_id,
                                  !.prompt = base_prompt(inp),
                                  !.attempt = IF inp.task = "script_generation" THEN 1 ELSE 0]]
                  /\ active_jobs' = track_job_active(active_jobs, job_id, "processing", now, "task")
                  /\ job_history' = track_job_history(job_history, job_id, "processing", now, "task")
                  /\ job_log' = track_job_log(job_log, job_id, "processing")
                  /\ running' = r
    /\ UNCHANGED <<cache, env, inputs, answers, CURRENT_PROVIDER, FALLBACK_PROVIDER, now>>

\* len(result['sections']) raises when the key is absent or null
LenSectionsRaises(obj) == obj.sections.t # "list"

ScriptValidation(rq) ==
    validate_script(JsonObject(rq.gen.text), word_bounds(rq.inp).min, word_bounds(rq.inp).max,
                    concept_names_of(rq.inp.concepts), rq.inp.grade)

\* variant: the handler returns the parsed answer without looking at is_valid
HandlerOutcome_IgnoresValidation(rq) ==
    IF rq.gen.raised \/ JsonLoadsRaises(rq.gen.text) THEN "failed"
    ELSE IF rq.inp.task = "script_generation" /\ ScriptValidation(rq).raised THEN "failed"
    ELSE "completed"

\* what the handler does with the outcome of generate_with_llm
HandlerOutcome(rq) ==
    IF rq.gen.raised THEN "failed"
    ELSE CASE rq.inp.task = "concept_extraction" ->
                IF JsonLoadsRaises(rq.gen.text) \/ ~Truthy(JsonObject(rq.gen.text).concepts)
                THEN "failed" ELSE "completed"
           [] rq.inp.task = "mcq_generation" ->
                IF JsonLoadsRaises(rq.gen.text) \/ ~Truthy(JsonObject(rq.gen.text).mcqs)
                THEN "failed" ELSE "completed"
           [] rq.inp.task = "regenerate" ->
                \* only JSONDecodeError is caught (main.py 1341-1345)
                IF rq.gen.text = NoneText THEN "failed" ELSE "completed"
           [] OTHER ->
                IF JsonLoadsRaises(rq.gen.text) THEN "failed"
                ELSE IF ScriptValidation(rq).raised THEN "failed"
                ELSE IF ScriptValidation(rq).is_valid THEN "completed"
                ELSE IF rq.attempt < max_attempts THEN "retry"
                ELSE IF LenSectionsRaises(JsonObject(rq.gen.text)) THEN "failed"
                ELSE "warnings"

\* is_valid, errors = validate_script(...) has run on this attempt
Validated(rq) ==
    IF rq.inp.task = "script_generation" /\ ~rq.gen.raised /\ ~JsonLoadsRaises(rq.gen.text)
       /\ ~ScriptValidation(rq).raised
    THEN [rq EXCEPT !.validations = Append(@, ScriptValidation(rq).errors),
                    !.validation_errors = IF ScriptValidation(rq).is_valid THEN @
                                          ELSE ScriptValidation(rq).errors]
    ELSE rq

\* the handler returns or raises: its local variables are gone; the request,
\* its job id, the outcome of its last run and its observations remain
Ended(rq, response) ==
    [NewRequest("done") EXCEPT !.inp = rq.inp, !.job_id = rq.job_id, !.attempt = rq.attempt,
                               !.gens = rq.gens, !.validations = rq.validations,
                               !.gen = rq.gen, !.response = response]

\* the request ends: its last track_job call and its response
Finish(r, status, metadata, response) ==
    /\ req' = [req EXCEPT ![r] = Ended(Validated(req[r]), response)]
    /\ active_jobs' = track_job_active(active_jobs, req[r].job_id, status, now, metadata)
    /\ job_history' = track_job_history(job_history, req[r].job_id, status, now, metadata)
    /\ job_log' = track_job_log(job_log, req[r].job_id, status)
    /\ running' = 0
    /\ UNCHANGED <<cache, env, inputs, answers, CURRENT_PROVIDER, FALLBACK_PROVIDER, now>>

\* except Exception: track_job("failed"), HTTP 500
HandlerFails(r) ==
    /\ running = r
    /\ req[r].pc = "gen_done"
    /\ HandlerOutcome(req[r]) = "failed"
    /\ Finish(r, "failed", "error", ErrorResponse)

\* track_job("completed") and the result
HandlerCompletes(r) ==
    /\ running = r
    /\ req[r].pc = "gen_done"
    /\ HandlerOutcome(req[r]) = "completed"
    /\ Finish(r, "completed", "result",
              [NoResponse EXCEPT !.status = "ok", !.script = req[r].gen.text,
                 !.passed = IF req[r].inp.task = "script_generation" THEN "true" ELSE "none",
                 !.attempts = req[r].attempt])

\* validation failed and an attempt remains (main.py 1207-1211)
ScriptRetry(r) ==
    /\ running = r
    /\ req[r].pc = "gen_done"
    /\ HandlerOutcome(req[r]) = "retry"
    /\ req' = [req EXCEPT ![r] = [Validated(req[r]) EXCEPT !.pc = "gen", !.attempt = @ + 1]]
    /\ UNCHANGED <<cache, env, inputs, answers, CURRENT_PROVIDER, FALLBACK_PROVIDER, now,
                   active_jobs, job_history, job_log, running>>

\* validation failed on the last attempt (main.py 1212-1228)
ScriptWarns(r) ==
    /\ running = r
    /\ req[r].pc = "gen_done"
    /\ HandlerOutcome(req[r]) = "warnings"
    /\ Finish(r, "completed_with_warnings", "warnings",
              [NoResponse EXCEPT !.status = "ok", !.script = req[r].gen.text,
                 !.passed = "false", !.errors = ScriptValidation(req[r]).errors,
                 !.attempts = req[r].attempt, !.warning = TRUE])

\* a second passes
Tick ==
    /\ now < MaxTime
    /\ now' = now + 1
    /\ UNCHANGED <<cache, env, inputs, answers, CURRENT_PROVIDER, FALLBACK_PROVIDER,
                   active_jobs, job_history, job_log, req, running>>

Next ==
    \/ Tick
    \/ \E r \in Requests :
         \/ Arrive(r)
         \/ GenStart(r)
         \/ OpenAIExhausted(r)
         \/ OpenAINoKey(r)
         \/ OpenAIChatCall(r)
         \/ ChatSucceeds(r)
         \/ ChatFails(r)
         \/ ResponsesSucceeds(r)
         \/ ResponsesFails(r)
         \/ GeminiNoKey(r)
         \/ GeminiTestFails(r)
         \/ GeminiCallFails(r)
         \/ GeminiSucceeds(r)
         \/ HandlerFails(r)
         \/ HandlerCompletes(r)
         \/ ScriptRetry(r)
         \/ ScriptWarns(r)

Spec == Init /\ [][Next]_vars

\* ------------------------------------------------------------------------
\* A service that has been up for a while and serves concurrent requests:
\* the history holds the jobs of JOB_HISTORY_MAXLEN - 1 earlier requests,
\* and MaxRequests clients send requests for the same episode
\* ------------------------------------------------------------------------
EarlierJob(i) ==
    job_info(create_job_id("concept_extraction", "d0", i - JOB_HISTORY_MAXLEN),
             "completed", i - JOB_HISTORY_MAXLEN, "result")

EarlierHistory == [i \in 1..(JOB_HISTORY_MAXLEN - 1) |-> EarlierJob(i)]

JobsEnvs ==
    {Env("auto", TRUE, TRUE, <<"">>), Env("gemini", FALSE, TRUE, <<"">>),
     Env("openai", TRUE, FALSE, <<"">>)}

JobsInputs ==
    {Input("script_generation", "d1", p) : p \in {"", "openai", "gemini"}}
    \cup {Input("concept_extraction", "d1", "")}

JobsAnswers ==
    [texts |-> [t \in Tasks |->
                  IF t = "script_generation" THEN {"script_good", "script_short"}
                  ELSE {"concepts_some"}],
     errors |-> {"timeout"},
     none_content |-> {FALSE}]

InitJobs == InitWith(JobsEnvs, JobsInputs, JobsAnswers, MaxRequests, EarlierHistory)

SpecJobs == InitJobs /\ [][Next]_vars

\* ------------------------------------------------------------------------
\* One request; OPENAI_MODEL names a model twice ("gpt-4o,gpt-4o")
\* ------------------------------------------------------------------------
RepeatedModels == <<"gpt-4o", "gpt-4o">>

ModelsEnvs ==
    {Env("auto", TRUE, TRUE, RepeatedModels), Env("gemini", TRUE, TRUE, RepeatedModels),
     Env("gemini", FALSE, TRUE, RepeatedModels), Env("openai", TRUE, FALSE, RepeatedModels)}

ModelsInputs == {Input("script_generation", "d1", p) : p \in {"", "openai", "gemini"}}

ModelsAnswers ==
    [texts |-> [t \in Tasks |-> {"script_good", "script_short"}],
     errors |-> {"timeout", "rate_limit"},
     none_content |-> {FALSE}]

InitModels == InitWith(ModelsEnvs, ModelsInputs, ModelsAnswers, 1, <<>>)

SpecModels == InitModels /\ [][Next]_vars

\* ------------------------------------------------------------------------
\* One script request; the word bounds of the request and the length of the
\* script vary
\* ------------------------------------------------------------------------
WordsRanges == {<<4, 8>>, <<6, 6>>, <<7, 8>>, <<4, 5>>, <<0, 0>>}

WordsInputs ==
    {[Input("script_generation", "d1", p) EXCEPT !.word_count_range = range] :
       p \in {"", "openai", "gemini"}, range \in WordsRanges}

WordsAnswers ==
    [texts |-> [t \in Tasks |-> {"script_good", "script_short", "script_long"}],
     errors |-> {"timeout"},
     none_content |-> {FALSE}]

InitWords == InitWith(JobsEnvs, WordsInputs, WordsAnswers, 1, <<>>)

SpecWords == InitWords /\ [][Next]_vars

\* ------------------------------------------------------------------------
\* One script request; the required concepts vary (named in other case than
\* the script, named across two sections, not named at all, given by id only)
\* ------------------------------------------------------------------------
ConceptById(id) == [has_name |-> FALSE, name |-> <<>>, has_id |-> TRUE, id |-> id]

ConceptLists ==
    { <<Concept(<<"A", "b">>), Concept(<<"C">>), Concept(<<"B", "a">>)>>,
      <<Concept(<<"A", "B">>), Concept(<<"a", " ", "A">>), Concept(<<"A">>)>>,
      <<Concept(<<"C">>), Concept(<<"a", "b">>), ConceptById(<<"c">>)>>,
      <<>> }

ConceptsInputs ==
    {[Input("script_generation", "d1", p) EXCEPT !.concepts = cs] :
       p \in {"", "openai", "gemini"}, cs \in ConceptLists}

InitConcepts == InitWith(JobsEnvs, ConceptsInputs, JobsAnswers, 1, <<>>)

SpecConcepts == InitConcepts /\ [][Next]_vars

\* ------------------------------------------------------------------------
\* Progress of a run of generate_with_llm
\* ------------------------------------------------------------------------
\* the steps of a run of request r
RunStep(r) ==
    \/ OpenAIExhausted(r) \/ OpenAINoKey(r) \/ OpenAIChatCall(r)
    \/ ChatSucceeds(r) \/ ChatFails(r) \/ ResponsesSucceeds(r) \/ ResponsesFails(r)
    \/ GeminiNoKey(r) \/ GeminiTestFails(r) \/ GeminiCallFails(r) \/ GeminiSucceeds(r)

\* The event loop resumes a coroutine that is ready, and an awaited provider
\* call ends: with an answer, an error, or the time-out of the client
\* library (AsyncOpenAI and genai are built with their default time-outs,
\* main.py 159, 195).
FairModels == <<"gpt-5", "", "gpt-4o">>

\* OpenAI first with Gemini behind it, Gemini first with OpenAI behind it
\* (with and without its key), OpenAI alone
FairEnvs ==
    {Env("auto", TRUE, TRUE, FairModels), Env("gemini", TRUE, TRUE, FairModels),
     Env("gemini", FALSE, TRUE, FairModels), Env("openai", TRUE, FALSE, FairModels)}

FairInputs ==
    {Input(t, "d1", p) : t \in {"script_generation", "concept_extraction"},
                         p \in {"", "openai", "gemini"}}

InitFair == InitWith(FairEnvs, FairInputs, AllAnswers, 1, <<>>)

SpecFair == InitFair /\ [][Next]_vars /\ \A r \in Requests : WF_vars(RunStep(r))

\* ------------------------------------------------------------------------
\* The Response Cache on its own: clients put, get and purge while time passes
\* ------------------------------------------------------------------------
MaxCacheAge == 3

CacheKeys == {"k1", "k2"}

CachePayloads == {"p1", "p2"}

CacheVersions == {PROMPT_VERSION, "v2.0"}

CacheTTLs == {1, 2}

InitCache ==
    /\ env = Env("auto", TRUE, TRUE, <<"">>)
    /\ inputs = {}
    /\ answers = JobsAnswers
    /\ CURRENT_PROVIDER = "openai"
    /\ FALLBACK_PROVIDER = "gemini"
    /\ now = 0
    /\ active_jobs = EmptyDict
    /\ job_history = <<>>
    /\ job_log = <<>>
    /\ req = [r \in Requests |-> NewRequest("off")]
    /\ running = 0
    /\ \E ttl \in CacheTTLs : cache = NewCache(ttl)

ServiceUnchanged ==
    UNCHANGED <<env, inputs, answers, CURRENT_PROVIDER, FALLBACK_PROVIDER,
                active_jobs, job_history, job_log, req, running>>

CacheGetStep(key, version) ==
    /\ cache' = [cache EXCEPT
                   !.entries = CacheGetEntries(cache.entries, key, now, cache.ttl),
                   !.last = [CacheOp("get", key, version, "None",
                                     CacheGet(cache.entries, key, version, now, cache.ttl))
                               EXCEPT !.removed =
                                 CacheGetEntries(cache.entries, key, now, cache.ttl)
                                   # cache.entries],
                   !.before = cache.last]
    /\ UNCHANGED now
    /\ ServiceUnchanged

CachePutStep(key, payload, version) ==
    /\ cache' = [cache EXCEPT
                   !.entries = CachePut(cache.entries, key, payload, version, now),
                   !.last = [CacheOp("put", key, version, payload, "None")
                               EXCEPT !.removed = key \in DOMAIN cache.entries],
                   !.before = cache.last]
    /\ UNCHANGED now
    /\ ServiceUnchanged

CachePurgeStep(version) ==
    /\ cache' = [cache EXCEPT
                   !.entries = CachePurge(cache.entries, version),
                   !.last = CacheOp("purge", "None", version, "None",
                                    Cardinality(DOMAIN cache.entries)
                                      - Cardinality(DOMAIN CachePurge(cache.entries, version))),
                   !.before = cache.last]
    /\ UNCHANGED now
    /\ ServiceUnchanged

CacheTick ==
    /\ now < MaxCacheAge
    /\ now' = now + 1
    /\ UNCHANGED cache
    /\ ServiceUnchanged

NextCache ==
    \/ CacheTick
    \/ \E key \in CacheKeys, version \in CacheVersions : CacheGetStep(key, version)
    \/ \E key \in CacheKeys, payload \in CachePayloads, version \in CacheVersions :
         CachePutStep(key, payload, version)
    \/ \E version \in CacheVersions \cup {None} : CachePurgeStep(version)

SpecCache == InitCache /\ [][NextCache]_vars

\* ========================================================================
\* Properties
\* ========================================================================
IsPrefix(s, t) == Len(s) <= Len(t) /\ SubSeq(t, 1, Len(s)) = s

Started(rq) == rq.pc \in {"oa_loop", "chat_wait", "rsp_wait", "gemini", "gen_done"}

\* the ordered candidate list of a run: the models of the first provider,
\* then the fallback provider
OpenAICandidates == [i \in 1..Len(parse_openai_model_list(env.OPENAI_MODEL)) |->
                       <<"openai", parse_openai_model_list(env.OPENAI_MODEL)[i]>>]

GeminiCandidates == << <<"gemini", GEMINI_MODEL>> >>

Candidates(rq) ==
    IF rq.use_provider = "openai"
    THEN OpenAICandidates \o (IF FALLBACK_PROVIDER = "gemini" THEN GeminiCandidates ELSE <<>>)
    ELSE GeminiCandidates \o (IF FALLBACK_PROVIDER = "openai" THEN OpenAICandidates ELSE <<>>)

\* a call that is an attempt at generation (not the connectivity probe)
IsGeneration(call) == call.shape # "test"

\* C1: a run of generate_with_llm tries the candidates in list order and
\* stops at the first success: the candidates tried are a prefix of the
\* candidate list, every call belongs to the candidate tried last when it was
\* made, no call follows a generation call that succeeded, and the text the
\* run returns is the answer of that call.
C1_FirstSuccessWins ==
    \A r \in Requests :
      LET rq == req[r]
          c == rq.calls
      IN  Started(rq) =>
            /\ IsPrefix(rq.tried, Candidates(rq))
            /\ \A i \in 1..Len(c) :
                 \E k \in 1..Len(rq.tried) :
                   /\ rq.tried[k] = <<c[i].provider, c[i].model>>
                   /\ \A j \in 1..Len(c) :
                        j < i => \E m \in 1..k : rq.tried[m] = <<c[j].provider, c[j].model>>
            /\ \A i \in 1..(Len(c) - 1) : IsGeneration(c[i]) => c[i].result = "fail"
            /\ (rq.pc = "gen_done" /\ ~rq.gen.raised) =>
                 /\ c # <<>>
                 /\ IsGeneration(Last(c))
                 /\ Last(c).result = "ok"
                 /\ Last(c).answer = rq.gen.text
                 /\ Last(rq.tried) = <<Last(c).provider, Last(c).model>>

\* C1 witness: the second candidate succeeded after the first had failed, and
\* a third candidate was never tried
C1_Witness ==
    \E r \in Requests :
      /\ req[r].pc = "gen_done"
      /\ ~req[r].gen.raised
      /\ Len(req[r].tried) = 2
      /\ Len(Candidates(req[r])) = 3
      /\ Len(req[r].calls) >= 2
      /\ req[r].calls[1].result = "fail"

\* C2: when every candidate a run tried has failed, the error the run raises
\* carries one error summary per candidate tried, in the order of the
\* attempts (stated for runs that have a provider selected).
C2_ExhaustionReportsEveryCandidate ==
    \A r \in Requests :
      LET rq == req[r]
      IN  (rq.pc = "gen_done" /\ rq.gen.raised /\ rq.use_provider # None) =>
            [i \in 1..Len(rq.gen.errors) |->
               <<rq.gen.errors[i].provider, rq.gen.errors[i].model>>] = rq.tried

Terminal == {"completed", "failed", "completed_with_warnings"}

\* a script request has ended after the validator rejected the parsed
\* artifact of every attempt, the last allowed attempt included
RejectedEveryAttempt(rq) ==
    /\ rq.pc = "done"
    /\ rq.inp.task = "script_generation"
    /\ rq.gens # <<>>
    /\ Len(rq.validations) = Len(rq.gens)
    /\ \A k \in 1..Len(rq.validations) : rq.validations[k] # <<>>

\* C3: when the validator rejects every attempt, generation and parsing
\* having succeeded each time, generate_script has made exactly max_attempts
\* generation calls and returns a result with passed: false.
C3_RetryBoundThenNotPassed ==
    \A r \in Requests :
      RejectedEveryAttempt(req[r]) =>
        /\ Len(req[r].gens) = max_attempts
        /\ req[r].response.status = "ok"
        /\ req[r].response.passed = "false"

\* C4: an artifact is never discarded because validation failed: when the
\* last allowed attempt produced a parsed artifact that the validator rejects,
\* whatever the violation, the request returns that artifact with
\* passed: false, the list of violations and a warning.
C4_ArtifactSurvivesValidation ==
    \A r \in Requests :
      LET rq == req[r]
      IN  (/\ rq.pc = "done"
           /\ rq.inp.task = "script_generation"
           /\ rq.attempt = max_attempts
           /\ Len(rq.gens) = max_attempts
           /\ Len(rq.validations) = max_attempts
           /\ Last(rq.validations) # <<>>) =>
            /\ rq.response.status = "ok"
            /\ rq.response.script = rq.gen.text
            /\ rq.response.passed = "false"
            /\ rq.response.errors = Last(rq.validations)
            /\ rq.response.warning = TRUE

\* C5: the first attempt sends the base prompt unmodified; the prompt of
\* attempt k+1 is the base prompt followed by a feedback block that is not
\* empty and lists exactly the violations reported for attempt k, in order.
C5_RetryPromptCarriesFeedback ==
    \A r \in Requests :
      LET rq == req[r]
          g == rq.gens
      IN  /\ g # <<>> => (g[1].base = <<rq.inp.task, rq.inp.hashed>> /\ g[1].suffix = <<>>)
          /\ \A k \in 1..(Len(g) - 1) :
               /\ g[k + 1].base = g[1].base
               /\ k <= Len(rq.validations)
               /\ rq.validations[k] # <<>>
               /\ Len(g[k + 1].suffix) = Len(rq.validations[k]) + 2
               /\ g[k + 1].suffix[1] = FeedbackHeader
               /\ Last(g[k + 1].suffix) = FeedbackFooter
               /\ \A i \in 1..Len(rq.validations[k]) :
                    g[k + 1].suffix[i + 1] = rq.validations[k][i]

\* C5 witness: a second attempt was sent after a first attempt with at least
\* two violations
C5_Witness ==
    \E r \in Requests :
      /\ Len(req[r].gens) = 2
      /\ Len(req[r].validations) >= 1
      /\ Len(req[r].validations[1]) >= 2
      /\ req[r].gens[2] # req[r].gens[1]

\* C6: a job id is in at most one of active_jobs and job_history, and at
\* most once in job_history.
C6_ActiveAndHistoryDisjoint ==
    /\ \A i \in 1..Len(job_history) : job_history[i].id \notin DOMAIN active_jobs
    /\ \A i, j \in 1..Len(job_history) :
         job_history[i].id = job_history[j].id => i = j

\* C7: after track_job has recorded any of the terminal statuses completed,
\* failed and completed_with_warnings for a job, the job is not in active_jobs
\* and is the most recent entry of job_history.
C7_TerminalMovesToHistory ==
    (job_log # <<>> /\ Last(job_log).status \in Terminal) =>
      /\ Last(job_log).id \notin DOMAIN active_jobs
      /\ job_history # <<>>
      /\ Last(job_history).id = Last(job_log).id
      /\ Last(job_history).status = Last(job_log).status

\* C8: the status of a job only moves forward: once a job id has been recorded
\* with a terminal status, no later track_job call records that id again,
\* neither as queued or processing nor with a second terminal status.
C8_StatusOnlyMovesForward ==
    \A i, j \in 1..Len(job_log) :
      (i < j /\ job_log[i].id = job_log[j].id) => job_log[i].status \notin Terminal

\* C9: job_history never holds more than JOB_HISTORY_MAXLEN entries, and every
\* change of it appends one entry at the end, evicting exactly the oldest
\* entry when the buffer was full and nothing otherwise, the entries kept
\* staying in their order.
C9_HistoryBoundedFifo ==
    /\ [](Len(job_history) <= JOB_HISTORY_MAXLEN)
    /\ [][job_history' # job_history =>
            LET kept == IF Len(job_history) = JOB_HISTORY_MAXLEN
                        THEN Tail(job_history) ELSE job_history
            IN  /\ Len(job_history') = Len(kept) + 1
                /\ SubSeq(job_history', 1, Len(kept)) = kept]_vars

\* C9 witness: a job was appended to the full buffer: the oldest entry is gone
\* and the second oldest is now first
C9_Witness ==
    /\ Len(job_history) = JOB_HISTORY_MAXLEN
    /\ job_history[1] = EarlierHistory[2]
    /\ job_history[JOB_HISTORY_MAXLEN - 2] = EarlierHistory[JOB_HISTORY_MAXLEN - 1]
    /\ job_history[JOB_HISTORY_MAXLEN].timestamp >= 0

\* C10: a chat call that fails with a rate limit is never followed by a
\* responses call for that model, and the run goes on through the candidate
\* list: a run that had a rate-limited call ends in failure only after every
\* candidate of the list has been tried.
C10_RateLimitSkipsResponsesOnly ==
    \A r \in Requests :
      LET rq == req[r]
          c == rq.calls
      IN  \A i \in 1..Len(c) :
            (c[i].shape = "chat" /\ c[i].result = "fail" /\ c[i].answer = "rate_limit") =>
              /\ i < Len(c) =>
                   /\ c[i + 1].shape # "responses"
                   /\ <<c[i + 1].provider, c[i + 1].model>> # <<c[i].provider, c[i].model>>
              /\ (rq.pc = "gen_done" /\ rq.gen.raised) => rq.tried = Candidates(rq)
              /\ (rq.pc = "gen_done" /\ ~rq.gen.raised) => i < Len(c)

\* C10 witness: a rate-limited chat call of one model is followed by the
\* chat call of the next model of the list
C10_Witness ==
    \E r \in Requests :
      \E i \in 1..(Len(req[r].calls) - 1) :
        /\ req[r].calls[i].shape = "chat"
        /\ req[r].calls[i].answer = "rate_limit"
        /\ req[r].calls[i + 1].shape = "chat"

\* ------------------------------------------------------------------------
\* Fallback, malformed answers, start-up (claims C11 to C13)
\* ------------------------------------------------------------------------
\* the model a provider is called with when none is configured
\* (main.py 159, 207, 232)
DefaultModel(provider) == IF provider = "openai" THEN "gpt-4o" ELSE GEMINI_MODEL

\* the provider that is not the one a run starts with
OtherProvider(provider) == IF provider = "openai" THEN "gemini" ELSE "openai"

\* the run has ended by reporting that its providers failed
Exhausted(rq) == rq.pc = "gen_done" /\ rq.gen.raised /\ rq.use_provider # None

\* C11: when a fallback provider is configured and a run ends in exhaustion,
\* the provider the run did not start with has been tried exactly once, with
\* its default model, as the last candidate of the run; the run may have
\* started with the configured provider or with the provider a request names.
C11_FallbackTriedOnce ==
    \A r \in Requests :
      LET rq == req[r]
          fallback == OtherProvider(rq.use_provider)
          attempts == SelectSeq(rq.tried, LAMBDA c : c[1] = fallback)
      IN  (Exhausted(rq) /\ FALLBACK_PROVIDER # None) =>
            /\ attempts = << <<fallback, DefaultModel(fallback)>> >>
            /\ Last(rq.tried) = <<fallback, DefaultModel(fallback)>>

\* C12: a run never returns as a success an answer that has no text: the
\* missing content of a chat completion or a responses answer from which no
\* text can be extracted; such an answer counts as a failure of the candidate.
C12_EmptyAnswerIsFailure ==
    \A r \in Requests :
      /\ (req[r].pc = "gen_done" /\ ~req[r].gen.raised) =>
           req[r].gen.text \notin {NoneText, DumpText}
      /\ \A i \in 1..Len(req[r].calls) :
           req[r].calls[i].answer \in {NoneText, DumpText} => req[r].calls[i].result = "fail"

\* C13: while no provider is selected (start-up found no usable credentials)
\* the service processes no generation request: no job is opened and no run
\* of generate_with_llm starts.
C13_NoRequestWithoutProvider ==
    CURRENT_PROVIDER = None =>
      /\ job_log = <<>>
      /\ \A r \in Requests : req[r].gens = <<>> /\ req[r].calls = <<>>

\* ------------------------------------------------------------------------
\* Sequencing and content of the provider calls (claims C14 to C16)
\* ------------------------------------------------------------------------
InFlight(call) == call.result = "pending"

CandidateOf(call) == <<call.provider, call.model>>

\* C14: the provider calls of one request are made one after the other: at
\* most one call of the request is in flight, it is the latest call, and a
\* call to another candidate is made only after the call before it has
\* returned a failure.
C14_OneCallAtATime ==
    \A r \in Requests :
      LET c == req[r].calls
      IN  /\ Cardinality({i \in 1..Len(c) : InFlight(c[i])}) <= 1
          /\ \A i \in 1..(Len(c) - 1) :
               /\ ~InFlight(c[i])
               /\ CandidateOf(c[i + 1]) # CandidateOf(c[i]) => c[i].result = "fail"
          /\ (c # <<>> /\ InFlight(Last(c))) <=> req[r].pc \in {"chat_wait", "rsp_wait"}

\* C14 witness: the call to the second candidate is in flight, after the
\* calls to the first candidate have failed
C14_Witness ==
    \E r \in Requests :
      LET c == req[r].calls
      IN  /\ Len(c) >= 2
          /\ InFlight(Last(c))
          /\ CandidateOf(Last(c)) # CandidateOf(c[1])
          /\ c[1].result = "fail"

\* C15: within one run no candidate is called again after it has failed: two
\* generation calls to the same (provider, model) are the chat call and the
\* responses call of one attempt.
C15_NoSecondCallToFailedCandidate ==
    \A r \in Requests :
      LET c == req[r].calls
      IN  \A i, j \in 1..Len(c) :
            (i < j /\ IsGeneration(c[i]) /\ IsGeneration(c[j])
               /\ CandidateOf(c[i]) = CandidateOf(c[j])) =>
              (j = i + 1 /\ c[i].shape = "chat" /\ c[j].shape = "responses")

\* the temperature a handler asks for, in tenths (main.py 1022, 1189, 1291,
\* 1338)
RequestedTemperature(inp) ==
    CASE inp.task = "script_generation" -> 4
      [] inp.task = "regenerate" -> inp.temperature
      [] OTHER -> 3

JobOpened(rq) ==
    /\ rq.job_id # NoJob
    /\ \E i \in 1..Len(job_log) : job_log[i] = [id |-> rq.job_id, status |-> "processing"]

\* C17: for a request of any task type, a job has been opened (recorded as
\* processing) before a run of generate_with_llm starts, before any provider
\* call is made, and before a failure is returned to the client.
C17_JobOpenedFirst ==
    \A r \in Requests :
      (\/ req[r].gens # <<>>
       \/ req[r].calls # <<>>
       \/ req[r].response.status = "error") => JobOpened(req[r])

\* ------------------------------------------------------------------------
\* validate_script (claims C18 and C19)
\* ------------------------------------------------------------------------
\* a script request has ended and its last answer was a parsed script with
\* sections, validated against a well-formed grade
ValidatedScript(rq) ==
    /\ rq.pc = "done"
    /\ rq.inp.task = "script_generation"
    /\ ~rq.gen.raised
    /\ ~JsonLoadsRaises(rq.gen.text)
    /\ Truthy(JsonObject(rq.gen.text).sections)
    /\ ~GradeRaises(rq.inp.grade)

IsWordCountViolation(v) == v.kind \in {"too_short", "too_long"}

\* C18: for every pair of bounds a request supplies, word-count validation
\* reports without raising; it passes exactly when min <= total <= max; below
\* min it reports the shortage min - total and floor(100 * shortage / min),
\* above max the excess total - max and floor(100 * excess / max).
C18_WordCountReport ==
    \A r \in Requests :
      LET rq == req[r]
          total == TotalWords(JsonObject(rq.gen.text).sections.v)
          min == word_bounds(rq.inp).min
          max == word_bounds(rq.inp).max
      IN  ValidatedScript(rq) =>
            /\ Len(rq.validations) = Len(rq.gens)
            /\ LET reported == SelectSeq(Last(rq.validations), IsWordCountViolation)
               IN  /\ reported = <<>> <=> (min <= total /\ total <= max)
                   /\ total < min =>
                        reported = << [kind |-> "too_short", total |-> total, min |-> min,
                                       max |-> max, by |-> min - total,
                                       pct |-> (100 * (min - total)) \div min,
                                       names |-> <<>>] >>
                   /\ (total >= min /\ total > max) =>
                        reported = << [kind |-> "too_long", total |-> total, min |-> min,
                                       max |-> max, by |-> total - max,
                                       pct |-> (100 * (total - max)) \div max,
                                       names |-> <<>>] >>

\* two characters are the same letter, whatever their case
SameLetter(x, y) ==
    \/ x = y
    \/ {x, y} \in {{"A", "a"}, {"B", "b"}, {"C", "c"}}

\* name occurs in text, case-insensitively
OccursIn(name, text) ==
    \E i \in 0..(Len(text) - Len(name)) :
      \A j \in 1..Len(name) : SameLetter(name[j], text[i + j])

\* C19: the coverage check reports one violation that names, in the order of
\* the request, exactly the required concepts whose name does not occur
\* case-insensitively in the joined text of the sections, and no violation
\* when every required name occurs.
C19_CoverageNamesMissingConcepts ==
    \A r \in Requests :
      LET rq == req[r]
          sections == JsonObject(rq.gen.text).sections.v
          text == Join(<<" ">>, [i \in 1..Len(sections) |-> sections[i].text])
          required == concept_names_of(rq.inp.concepts)
          missing == SelectSeq(required, LAMBDA n : ~OccursIn(n, text))
      IN  (ValidatedScript(rq) /\ Len(rq.validations) = Len(rq.gens)) =>
            LET reported == SelectSeq(Last(rq.validations),
                                      LAMBDA v : v.kind = "not_covered")
            IN  IF missing = <<>>
                THEN reported = <<>>
                ELSE Len(reported) = 1 /\ reported[1].names = missing

\* C19 witness: of three required concepts the first is named in the script
\* and the two others are reported, in their order
C19_Witness ==
    \E r \in Requests :
      /\ ValidatedScript(req[r])
      /\ Len(req[r].inp.concepts) = 3
      /\ \E i \in 1..Len(Last(req[r].validations)) :
           /\ Last(req[r].validations)[i].kind = "not_covered"
           /\ Last(req[r].validations)[i].names = <<<<"C">>, <<"B", "a">>>>

\* ------------------------------------------------------------------------
\* Atomicity of track_job (claim C20)
\* ------------------------------------------------------------------------
\* the entries of active_jobs other than id are untouched
OthersKept(id) ==
    \A k \in (DOMAIN active_jobs) \ {id} :
      k \in DOMAIN active_jobs' /\ active_jobs'[k] = active_jobs[k]

\* the step is one whole track_job call for the record rec: the insert, or
\* the removal together with the append (and the eviction it may cause)
WholeUpdate(rec) ==
    IF rec.status \in {"queued", "processing"}
    THEN /\ DOMAIN active_jobs' = (DOMAIN active_jobs) \cup {rec.id}
         /\ active_jobs'[rec.id].id = rec.id
         /\ active_jobs'[rec.id].status = rec.status
         /\ OthersKept(rec.id)
         /\ job_history' = job_history
    ELSE \/ /\ DOMAIN active_jobs' = (DOMAIN active_jobs) \ {rec.id}
            /\ OthersKept(rec.id)
            /\ LET kept == IF Len(job_history) = JOB_HISTORY_MAXLEN
                           THEN Tail(job_history) ELSE job_history
               IN  /\ Len(job_history') = Len(kept) + 1
                   /\ SubSeq(job_history', 1, Len(kept)) = kept
                   /\ Last(job_history').id = rec.id
                   /\ Last(job_history').status = rec.status
         \/ /\ rec.status = "completed_with_warnings"
            /\ active_jobs' = active_jobs
            /\ job_history' = job_history

\* C20: with requests running concurrently, every change of active_jobs and
\* job_history is one whole track_job update applied to the tables as they
\* are (no update is lost or half done), and no state shows a job recorded as
\* completed or failed that has left active_jobs without being in job_history.
C20_TrackJobAtomic ==
    /\ [](\A i \in 1..Len(job_log) :
            job_log[i].status \in {"completed", "failed"} =>
              /\ \E j \in 1..Len(job_history) :
                   /\ job_history[j].id = job_log[i].id
                   /\ job_history[j].status = job_log[i].status
              /\ (\A k \in (i + 1)..Len(job_log) : job_log[k].id # job_log[i].id) =>
                   job_log[i].id \notin DOMAIN active_jobs)
    /\ [][(active_jobs' # active_jobs \/ job_history' # job_history \/ job_log' # job_log) =>
            /\ Len(job_log') = Len(job_log) + 1
            /\ SubSeq(job_log', 1, Len(job_log)) = job_log
            /\ WholeUpdate(Last(job_log'))]_vars

\* C20 witness: while the first request waits for its provider call, with its
\* job in active_jobs, a second request has run from start to end and its
\* job has moved to job_history
C20_Witness ==
    /\ req[1].pc \in {"chat_wait", "rsp_wait"}
    /\ req[1].job_id \in DOMAIN active_jobs
    /\ req[2].pc = "done"
    /\ req[2].job_id # req[1].job_id
    /\ req[2].job_id \notin DOMAIN active_jobs
    /\ Last(job_history).id = req[2].job_id
    /\ Len(job_log) = 3

\* ------------------------------------------------------------------------
\* Authentication errors and termination (claims C21 and C22)
\* ------------------------------------------------------------------------
\* C21: once a provider has rejected the credential in a run, the run makes
\* no further call to that provider; and when the run ends in failure with a
\* fallback provider configured, the other provider has been tried.
C21_AuthErrorEndsProvider ==
    \A r \in Requests :
      LET rq == req[r]
      IN  \A i \in 1..Len(rq.calls) :
            (rq.calls[i].result = "fail" /\ rq.calls[i].answer = "auth") =>
              /\ \A j \in (i + 1)..Len(rq.calls) :
                   rq.calls[j].provider # rq.calls[i].provider
              /\ (Exhausted(rq) /\ FALLBACK_PROVIDER = OtherProvider(rq.calls[i].provider)) =>
                   \E k \in 1..Len(rq.tried) : rq.tried[k][1] = FALLBACK_PROVIDER

\* a run of generate_with_llm is in progress
InRun(rq) == rq.pc \in {"oa_loop", "chat_wait", "rsp_wait", "gemini"}

RequestKey(inp) == <<inp.task, inp.hashed, PROMPT_VERSION>>

\* the cache holds an entry that get would serve for the request
Cached(inp) ==
    /\ RequestKey(inp) \in DOMAIN cache.entries
    /\ cache.entries[RequestKey(inp)].version = PROMPT_VERSION
    /\ now - cache.entries[RequestKey(inp)].created_at <= cache.ttl

\* C23: the cache is consulted before the providers: no run of
\* generate_with_llm starts for a request whose result is cached, and once
\* a request has returned its result, the result is in the cache for the
\* next identical request.
C23_CacheBeforeProviders ==
    /\ [](\A r \in Requests :
            (req[r].pc = "done" /\ req[r].response.status = "ok") => Cached(req[r].inp))
    /\ [][\A r \in Requests :
            (req[r].gens = <<>> /\ req'[r].gens # <<>>) => ~Cached(req[r].inp)]_vars

\* the step is a get(key) under some version; cache'.last tells which
IsGet == cache'.last.op = "get" /\ now' = now

\* C24: get serves an entry only under the version it was stored with: a get
\* of a key whose entry has another version returns absent, however young
\* the entry is, and a payload that is returned is that of an entry of the
\* version requested.
C24_VersionMismatchIsAbsent ==
    [][IsGet =>
         LET key == cache'.last.key
             version == cache'.last.version
             result == cache'.last.result
         IN  /\ (key \in DOMAIN cache.entries /\ cache.entries[key].version # version) =>
                  result = Miss
             /\ result # Miss =>
                  /\ key \in DOMAIN cache.entries
                  /\ cache.entries[key].version = version
                  /\ cache.entries[key].payload = result]_vars

\* C24 witness: an entry written a moment ago under one version, and a get
\* of its key under another version that returned absent
C24_Witness ==
    /\ cache.last.op = "get"
    /\ cache.last.result = Miss
    /\ cache.last.key \in DOMAIN cache.entries
    /\ cache.entries[cache.last.key].version # cache.last.version
    /\ cache.entries[cache.last.key].created_at = now

\* C25: a get of a key whose entry is older than the TTL returns absent and
\* deletes the entry; a get of a key without entry returns absent, and only
\* a put gives a key an entry again.  An entry that is not older than the
\* TTL is left in place by get.
C25_ExpiredEntryIsRemoved ==
    [][/\ IsGet =>
            LET key == cache'.last.key
                result == cache'.last.result
            IN  IF key \notin DOMAIN cache.entries
                THEN result = Miss /\ cache'.entries = cache.entries
                ELSE IF now - cache.entries[key].created_at > cache.ttl
                THEN /\ result = Miss
                     /\ key \notin DOMAIN cache'.entries
                     /\ \A k \in (DOMAIN cache.entries) \ {key} :
                          k \in DOMAIN cache'.entries /\ cache'.entries[k] = cache.entries[k]
                ELSE cache'.entries = cache.entries
       /\ \A k \in (DOMAIN cache'.entries) \ (DOMAIN cache.entries) :
            cache'.last.op = "put" /\ cache'.last.key = k]_vars

\* C25 witness: a get has just found an entry older than the TTL, returned
\* absent and deleted it
C25_Witness ==
    /\ cache.last.op = "get"
    /\ cache.last.removed
    /\ cache.last.result = Miss
    /\ cache.last.key \notin DOMAIN cache.entries
    /\ now > cache.ttl

\* the step is a put(key, payload, version); cache'.last tells which
IsPut == cache'.last.op = "put" /\ now' = now

C27_JobIdsUnique ==
    \A r1, r2 \in Requests :
      (r1 # r2 /\ req[r1].job_id # NoJob /\ req[r2].job_id # NoJob) =>
        req[r1].job_id # req[r2].job_id

\* the terminal status a request closes its job with
ClosingStatus(rq) ==
    IF rq.response.status = "error" THEN "failed"
    ELSE IF rq.response.warning THEN "completed_with_warnings"
    ELSE "completed"

\* C28: a request that has ended and had opened a job has made exactly one
\* terminal track_job call for it, with the status its outcome asks for, and
\* the job is no longer in active_jobs; when no request is in flight,
\* active_jobs is empty.
C28_EveryJobIsClosed ==
    /\ \A r \in Requests :
         (req[r].pc = "done" /\ req[r].job_id # NoJob) =>
           /\ Len(SelectSeq(job_log, LAMBDA rec : rec.id = req[r].job_id
                                                  /\ rec.status \in Terminal)) = 1
           /\ \E i \in 1..Len(job_log) :
                job_log[i] = [id |-> req[r].job_id, status |-> ClosingStatus(req[r])]
           /\ req[r].job_id \notin DOMAIN active_jobs
    /\ (\A r \in Requests : req[r].pc \in {"done", "off", "idle"}) => active_jobs = EmptyDict

\* ------------------------------------------------------------------------
\* The result of generate_script (claim C29)
\* ------------------------------------------------------------------------
\* C29: when generate_script returns a result, validation.attempts is the
\* number of runs of generate_with_llm the request made, between 1 and
\* max_attempts; passed is true exactly when validate_script found no
\* violation in the answer of the last run; and the script returned is the
\* answer of the last run.
C29_ResultReportsLastAttempt ==
    \A r \in Requests :
      LET rq == req[r]
      IN  (rq.pc = "done" /\ rq.inp.task = "script_generation" /\ rq.response.status = "ok") =>
            /\ rq.response.attempts = Len(rq.gens)
            /\ rq.response.attempts \in 1..max_attempts
            /\ Len(rq.validations) = Len(rq.gens)
            /\ (rq.response.passed = "true") <=> (Last(rq.validations) = <<>>)
            /\ rq.response.passed \in {"true", "false"}
            /\ rq.response.script = rq.gen.text
            /\ ~rq.gen.raised

\* C29 witness: a result returned after a second run, not passed, with the
\* violations of the second answer
C29_Witness ==
    \E r \in Requests :
      /\ req[r].pc = "done"
      /\ req[r].response.status = "ok"
      /\ req[r].response.attempts = 2
      /\ Len(req[r].gens) = 2
      /\ req[r].response.passed = "false"
      /\ Last(req[r].validations) # <<>>
      /\ req[r].response.script = req[r].gen.text

\* ------------------------------------------------------------------------
\* Order of the providers in a run (claim C30)
\* ------------------------------------------------------------------------
\* the provider a run is to start with: the override of the request when it
\* names one, the current provider otherwise
FirstProvider(rq) ==
    IF provider_override_of(rq.inp) # None THEN provider_override_of(rq.inp)
    ELSE CURRENT_PROVIDER

\* C30: the first candidate a run tries is one of the provider the run is to
\* start with, and a candidate of another provider is tried only after every
\* candidate of that provider has been tried and every call made so far has
\* failed.
C30_FirstProviderThenFallback ==
    \A r \in Requests :
      LET rq == req[r]
          own == SelectSeq(Candidates(rq), LAMBDA c : c[1] = FirstProvider(rq))
      IN  (Started(rq) /\ rq.tried # <<>>) =>
            /\ rq.tried[1][1] = FirstProvider(rq)
            /\ \A i \in 1..Len(rq.tried) :
                 rq.tried[i][1] # FirstProvider(rq) =>
                   /\ i > Len(own)
                   /\ SubSeq(rq.tried, 1, Len(own)) = own
                   /\ \A k \in 1..Len(rq.calls) :
                        (rq.calls[k].provider = FirstProvider(rq)
                         /\ IsGeneration(rq.calls[k])) => rq.calls[k].result = "fail"

====
